---- MODULE Spec2Model ----
(***************************************************************************)
(* Function-level code generation of the Kani compiler                     *)
(* (kani-compiler/rustc_codegen_kani/src/codegen/function.rs).             *)
(*                                                                         *)
(* The state is the part of GotocCtx the pass writes: the symbol table,    *)
(* the list of proof harnesses, the current-function context, and the      *)
(* compiler session's error list.  The read-only compiler input (the MIR   *)
(* body, names, span and attributes of every instance) is chosen in Init.  *)
(***************************************************************************)
EXTENDS Integers, Sequences, FiniteSets, TLC

(***************************************************************************)
(* Bounds of the model.                                                    *)
(***************************************************************************)
MaxAttrs == 3      \* longest attribute list on a function
MaxArgs == 2       \* largest arg_count of a MIR body
MaxTemps == 2      \* most locals after the arguments
MaxBlocks == 2     \* most basic blocks of a MIR body
MaxTuple == 2      \* most components of a spread tuple

(***************************************************************************)
(* Option values.                                                          *)
(***************************************************************************)
NoneV == [tag |-> "None", val |-> <<>>]
Some(v) == [tag |-> "Some", val |-> v]
IsNone(o) == o.tag = "None"
IsSome(o) == o.tag = "Some"

(***************************************************************************)
(* u128 values are kept as two limbs, value = hi * 2^16 + lo, because the  *)
(* interesting values lie around 2^32.                                     *)
(***************************************************************************)
Limb == 65536
U128(h, l) == [hi |-> h, lo |-> l]
U128Lt(a, b) == a.hi < b.hi \/ (a.hi = b.hi /\ a.lo < b.lo)
U32_MAX == U128(Limb - 1, Limb - 1)
\* u32::try_from(u128): Err when the value does not fit 32 bits
TryIntoU32(v) == IF v.hi < Limb THEN Some(v) ELSE NoneV

(***************************************************************************)
(* str methods used by the filter, and integer formatting.                 *)
(***************************************************************************)
starts_with(s, p) == Len(s) >= Len(p) /\ SubSeq(s, 1, Len(p)) = p
ends_with(s, p) == Len(s) >= Len(p) /\ SubSeq(s, Len(s) - Len(p) + 1, Len(s)) = p
contains(s, p) == \E k \in 0..(Len(s) - Len(p)) : SubSeq(s, k + 1, k + Len(p)) = p

Digit == <<"0", "1", "2", "3", "4", "5", "6", "7", "8", "9">>
RECURSIVE to_string(_)
to_string(n) == IF n < 10 THEN Digit[n + 1]
                ELSE to_string(n \div 10) \o Digit[(n % 10) + 1]

(***************************************************************************)
(* Compiler input: attributes (rustc_ast::Attribute).  An attribute is a   *)
(* path of segments and, when written with parentheses, a list of nested   *)
(* meta items; its span is its position in the function's attribute list.  *)
(***************************************************************************)
IntLit(v) == [kind |-> "Literal", lit |-> [kind |-> "Int", val |-> v]]
StrLit == [kind |-> "Literal", lit |-> [kind |-> "Str", val |-> U128(0, 0)]]
MetaWord == [kind |-> "MetaItem", lit |-> [kind |-> "Str", val |-> U128(0, 0)]]

Attr(segs, a) == [kind |-> "Normal", segments |-> segs, args |-> a]
AttrProof == Attr(<<"kanitool", "proof">>, NoneV)
AttrUnwind(a) == Attr(<<"kanitool", "unwind">>, a)
AttrOther == Attr(<<"kanitool", "stub">>, NoneV)
AttrInline == Attr(<<"inline">>, NoneV)
Unwind10 == AttrUnwind(Some(<<IntLit(U128(0, 10))>>))

\* integer literals written in unwind(..): 0, 10, 2^32-2, 2^32-1, 2^32
UnwindInts == {U128(0, 0), U128(0, 10), U128(Limb - 1, Limb - 2),
               U128(Limb - 1, Limb - 1), U128(Limb, 0)}
UnwindArgs == {NoneV, Some(<<>>), Some(<<StrLit>>), Some(<<MetaWord>>),
               Some(<<IntLit(U128(0, 1)), IntLit(U128(0, 2))>>)}
              \cup {Some(<<IntLit(v)>>) : v \in UnwindInts}
AttrItems == {AttrProof, AttrOther, AttrInline} \cup {AttrUnwind(a) : a \in UnwindArgs}
AttrLists == UNION {[1..n -> AttrItems] : n \in 0..MaxAttrs}

(***************************************************************************)
(* Compiler input: display names.  FilteredNames are the names the issues  *)
(* cited in should_skip_current_fn are about; PlainNames resemble them.    *)
(***************************************************************************)
FilteredNames == {"fmt::ArgumentV1::<'a>::as_usize",
                  "KEY::__getit",
                  "bridge::client::run",
                  "bridge::closure::Closure::<'a, A, R>::call",
                  "<std::future::from_generator::GenFuture<T> as Future>::poll",
                  "a::reusable_box::ReusableBoxFuture::<T>::set",
                  "tokio::sync::Semaphore::acquire_owned::{closure#0}"}
PlainNames == {"main", "__getit::f", "my::bridge::client",
               "fmt::ArgumentV1::<'a>::as_usize2"}

(***************************************************************************)
(* Compiler input: MIR bodies.  Local 0 is the return place, locals        *)
(* 1..arg_count the arguments, the rest user variables and temporaries.    *)
(* fn_kind and sig_inputs describe the instance's type before untupling;   *)
(* an input is "T" or a tuple given by its number of components.  The      *)
(* layout of a tuple lists its field indices in the physical order the     *)
(* target struct keeps them in.                                            *)
(***************************************************************************)
TupleOf(layout) == [kind |-> "Tuple", len |-> Len(layout), layout |-> layout]
Tuple(m) == TupleOf([j \in 1..m |-> j - 1])
Scalar == [kind |-> "Scalar", len |-> 0, layout |-> <<>>]
Layouts(m) == {l \in [1..m -> 0..(m - 1)] : \A a, b \in 1..m : l[a] = l[b] => a = b}

Mir(k, t, b, sp, fk, ins) ==
    [arg_count |-> k, nlocals |-> 1 + k + t, nblocks |-> b, spread_arg |-> sp,
     user |-> {i \in 1..(k + t) : i <= k + 1}, fn_kind |-> fk, sig_inputs |-> ins]

PlainMirs == {Mir(k, t, b, NoneV, "FnDef", [i \in 1..k |-> Scalar]) :
                 k \in 0..MaxArgs, t \in 0..MaxTemps, b \in 1..MaxBlocks}
\* the spread slot is a user variable (a closure's argument pattern) or not (a shim)
SpreadMirs == {[Mir(k, t, 1, Some(k), fk, [i \in 1..k |-> IF i = k THEN TupleOf(l) ELSE Scalar])
                   EXCEPT !.user = IF u THEN @ ELSE @ \ {k}] :
                 k \in 1..MaxArgs, t \in 0..1, fk \in {"FnDef", "FnPtr"},
                 l \in UNION {Layouts(m) : m \in 0..MaxTuple}, u \in BOOLEAN}
BadSpreadMirs == {Mir(1, 0, 1, Some(1), "Closure", <<Tuple(1)>>),
                  Mir(1, 0, 1, Some(1), "Adt", <<Tuple(1)>>),
                  Mir(1, 0, 1, Some(1), "FnDef", <<Scalar>>)}
BasicMir == Mir(1, 1, 1, NoneV, "FnDef", <<Scalar>>)
BasicSpreadMir == Mir(2, 1, 1, Some(2), "FnDef", <<Scalar, Tuple(2)>>)

(***************************************************************************)
(* A function of the crate: display name, body, span and attributes.       *)
(***************************************************************************)
Fn(rn, mir, line, attrs) ==
    [readable_name |-> rn, mir |-> mir, span |-> [file |-> "a.rs", line |-> line],
     attrs |-> attrs]

AttrFns == {Fn("main", BasicMir, 7, al) : al \in AttrLists}
NameFns == {Fn(rn, mir, 42, al) : rn \in FilteredNames \cup PlainNames,
                                  mir \in {BasicMir, BasicSpreadMir},
                                  al \in {<<AttrProof>>}}
MirFns == {Fn("main", mir, 1234, al) : mir \in PlainMirs \cup SpreadMirs \cup BadSpreadMirs,
                                       al \in {<<>>, <<AttrProof>>}}
OtherFns == {Fn("check", BasicMir, 10, <<AttrProof, Unwind10>>),
             Fn("KEY::__getit", BasicMir, 11, <<AttrProof>>),
             Fn("call_once", BasicSpreadMir, 12, <<>>)}

\* the instances of a crate, by mangled name
Crates == {("_ZN1f" :> f) : f \in AttrFns}
          \cup {("_ZN1f" :> f) @@ ("_ZN1g" :> g) : f \in NameFns \cup MirFns, g \in OtherFns}
Instances == {"_ZN1f", "_ZN1g"}

(***************************************************************************)
(* State.  tcx is the compiler's read-only view of the crate.  trace is    *)
(* the sequence of routines entered and log lines written by the most      *)
(* recent call of declare_function or codegen_function.                    *)
(***************************************************************************)
VARIABLES tcx, symbol_table, proof_harnesses, errors, current_fn, aborted, trace
vars == <<tcx, symbol_table, proof_harnesses, errors, current_fn, aborted, trace>>

\* &mut self
Self == [symbol_table |-> symbol_table, proof_harnesses |-> proof_harnesses,
         errors |-> errors, current_fn |-> current_fn, aborted |-> aborted,
         trace |-> <<>>]

(***************************************************************************)
(* GotocCtx and cbmc helpers the file calls.                               *)
(***************************************************************************)
set_current_fn(self, instance) ==
    [self EXCEPT !.current_fn = Some([instance |-> instance, block |-> <<>>])]
reset_current_fn(self) == [self EXCEPT !.current_fn = NoneV]
current_fn_instance(self) == self.current_fn.val.instance
current_fn_name(self) == current_fn_instance(self)
current_fn_readable_name(self) == tcx[current_fn_instance(self)].readable_name
current_fn_mir(self) == tcx[current_fn_instance(self)].mir
push_onto_block(self, stmt) == [self EXCEPT !.current_fn.val.block = Append(@, stmt)]
extract_block(self) == [self EXCEPT !.current_fn.val.block = <<>>]
panic(self, msg) == [self EXCEPT !.aborted = TRUE, !.trace = Append(@, [ev |-> "panic", arg |-> msg])]
enter(self, routine, arg) == [self EXCEPT !.trace = Append(@, [ev |-> routine, arg |-> arg])]
span_err(self, span, msg) == [self EXCEPT !.errors = Append(@, [span |-> span, msg |-> msg])]

codegen_span(span) == [file |-> Some(span.file), line |-> Some(span.line)]
local_span(instance, lc) == [file |-> tcx[instance].span.file, line |-> tcx[instance].span.line + lc]
codegen_var_base_name(lc) == "var_" \o to_string(lc)
var_name(fname, lc) == fname \o "::1::" \o codegen_var_base_name(lc)
codegen_var_name(self, lc) == var_name(current_fn_name(self), lc)
codegen_spread_arg_base_name(lc) == "spread" \o to_string(lc)
codegen_spread_arg_name(self, lc) == current_fn_name(self) \o "::1::" \o codegen_spread_arg_base_name(lc)

Symbol_function(name, typ, body, pretty_name, loc) ==
    [name |-> name, base_name |-> NoneV, pretty_name |-> pretty_name, kind |-> "function",
     typ |-> typ, is_hidden |-> FALSE, value |-> body, location |-> loc]
Symbol_variable(name, base_name, typ, loc) ==
    [name |-> name, base_name |-> Some(base_name), pretty_name |-> NoneV, kind |-> "variable",
     typ |-> typ, is_hidden |-> FALSE, value |-> NoneV, location |-> loc]
with_is_hidden(sym, hidden) == [sym EXCEPT !.is_hidden = hidden]
to_expr(sym) == [kind |-> "Symbol", name |-> sym.name]
is_function(sym) == sym.typ.kind = "Code"
is_function_definition(sym) == sym.kind = "function" /\ IsSome(sym.value)

lookup(table, name) == IF name \in DOMAIN table THEN Some(table[name]) ELSE NoneV
insert(table, sym) ==
    [n \in DOMAIN table \cup {sym.name} |-> IF n = sym.name THEN sym ELSE table[n]]
ensure(table, sym) == IF sym.name \in DOMAIN table THEN table ELSE insert(table, sym)
update_fn_declaration_with_definition(table, name, body) ==
    [table EXCEPT ![name].value = Some(body)]

Stmt_decl(lhs, value, loc) == [kind |-> "Decl", lhs |-> lhs, value |-> value, location |-> loc]
Stmt_block(stmts, loc) == [kind |-> "Block", stmts |-> stmts, location |-> loc]
unsupported_msg(item) == item \o " is not currently supported by Kani"
codegen_fatal_error(msg, span) ==
    [kind |-> "Assert", cond |-> FALSE, msg |-> msg, location |-> codegen_span(span.val)]
fn_typ(instance) ==
    [kind |-> "Code",
     params |-> LET m == tcx[instance].mir
                    ins == m.sig_inputs
                IN  IF IsSome(m.spread_arg) /\ ins # <<>> /\ ins[Len(ins)].kind = "Tuple"
                    THEN Len(ins) - 1 + ins[Len(ins)].len ELSE m.arg_count]
local_ty(self, lc) ==
    LET m == current_fn_mir(self)
    IN  IF Some(lc) = m.spread_arg /\ lc <= Len(m.sig_inputs) THEN m.sig_inputs[lc] ELSE Scalar
codegen_ty(t) == IF t.kind = "Tuple"
                 THEN [kind |-> "Struct", components |-> [j \in 1..t.len |-> to_string(t.layout[j])]]
                 ELSE [kind |-> "Scalar", components |-> <<>>]
\* the values of a struct expression are kept in the order of the type's components
Expr_struct_expr(typ, components) ==
    [kind |-> "Struct", typ |-> typ,
     values |-> [j \in 1..Len(typ.components) |-> components[typ.components[j]]]]
with_location(expr, loc) ==
    [kind |-> expr.kind, typ |-> expr.typ, values |-> expr.values, location |-> loc]
declare_variable(self, name, base_name, typ, value, loc) ==
    LET sym == Symbol_variable(name, base_name, typ, loc)
    IN  push_onto_block([self EXCEPT !.symbol_table = insert(@, sym)],
                        Stmt_decl(to_expr(sym), value, loc))
codegen_block(self, bb) ==
    push_onto_block(enter(self, "codegen_block", to_string(bb)),
                    [kind |-> "BasicBlock", bb |-> bb])

(***************************************************************************)
(* should_skip_current_fn                                                  *)
(***************************************************************************)
should_skip_without_contains(self) ==
    LET name == current_fn_readable_name(self)
    IN  \/ name = "fmt::ArgumentV1::<'a>::as_usize"
        \/ ends_with(name, "__getit")
        \/ starts_with(name, "bridge::client")
        \/ name = "bridge::closure::Closure::<'a, A, R>::call"
        \/ starts_with(name, "<std::future::from_generator::GenFuture<T>")
        \/ starts_with(name, "reusable_box::ReusableBoxFuture")
        \/ name = "tokio::sync::Semaphore::acquire_owned::{closure#0}"
should_skip_current_fn(self) ==
    LET name == current_fn_readable_name(self)
    IN  \/ name = "fmt::ArgumentV1::<'a>::as_usize"
        \/ ends_with(name, "__getit")
        \/ starts_with(name, "bridge::client")
        \/ name = "bridge::closure::Closure::<'a, A, R>::call"
        \/ starts_with(name, "<std::future::from_generator::GenFuture<T>")
        \/ contains(name, "reusable_box::ReusableBoxFuture")
        \/ name = "tokio::sync::Semaphore::acquire_owned::{closure#0}"

(***************************************************************************)
(* codegen_declare_variables                                               *)
(***************************************************************************)
needs_decl(lc, arg_count) == lc < 1 \/ lc > arg_count

declare_local_without_skip(self, lc) ==
    LET mir == current_fn_mir(self)
        base_name == codegen_var_base_name(lc)
        name == codegen_var_name(self, lc)
        t == codegen_ty(local_ty(self, lc))
        loc == codegen_span(local_span(current_fn_instance(self), lc))
        sym == with_is_hidden(Symbol_variable(name, base_name, t, loc), ~(lc \in mir.user))
        inserted == [self EXCEPT !.symbol_table = insert(@, sym)]
    IN  IF needs_decl(lc, mir.arg_count)
        THEN push_onto_block(inserted, Stmt_decl(to_expr(sym), NoneV, loc))
        ELSE inserted

declare_local(self, lc) ==
    LET mir == current_fn_mir(self)
        base_name == codegen_var_base_name(lc)
        name == codegen_var_name(self, lc)
        t == codegen_ty(local_ty(self, lc))
        loc == codegen_span(local_span(current_fn_instance(self), lc))
        sym == with_is_hidden(Symbol_variable(name, base_name, t, loc), ~(lc \in mir.user))
        inserted == [self EXCEPT !.symbol_table = insert(@, sym)]
    IN  IF Some(lc) = mir.spread_arg THEN self
        ELSE IF needs_decl(lc, mir.arg_count)
             THEN push_onto_block(inserted, Stmt_decl(to_expr(sym), NoneV, loc))
             ELSE inserted

RECURSIVE for_each_local(_, _)
for_each_local(self, lc) ==
    IF lc >= current_fn_mir(self).nlocals THEN self
    ELSE for_each_local(declare_local(self, lc), lc + 1)

codegen_declare_variables(self) ==
    for_each_local(enter(self, "codegen_declare_variables", ""), 0)

(***************************************************************************)
(* codegen_function_prelude                                                *)
(***************************************************************************)
spread_param_unshifted(self, arg_i, starting_idx, loc) ==
    with_is_hidden(Symbol_variable(codegen_spread_arg_name(self, arg_i),
                                   codegen_spread_arg_base_name(arg_i),
                                   codegen_ty(Scalar), loc), FALSE)
spread_param(self, arg_i, starting_idx, loc) ==
    LET lc == arg_i + starting_idx
    IN  with_is_hidden(Symbol_variable(codegen_spread_arg_name(self, lc),
                                       codegen_spread_arg_base_name(lc),
                                       codegen_ty(Scalar), loc), FALSE)

\* the pass over args.iter().enumerate(): acc.ctx is self, acc.fields the BTreeMap
RECURSIVE marshal_fields(_, _, _, _, _)
marshal_fields(acc, arg_i, len, starting_idx, loc) ==
    IF arg_i >= len THEN acc
    ELSE LET sym == spread_param(acc.ctx, arg_i, starting_idx, loc)
             key == to_string(arg_i)
         IN  marshal_fields(
                 [ctx |-> [acc.ctx EXCEPT !.symbol_table = insert(@, sym)],
                  fields |-> [k \in DOMAIN acc.fields \cup {key} |->
                                 IF k = key THEN to_expr(sym) ELSE acc.fields[k]]],
                 arg_i + 1, len, starting_idx, loc)

codegen_function_prelude(self) ==
    LET mir == current_fn_mir(self)
        entered == enter(self, "codegen_function_prelude", "")
        spread_arg == mir.spread_arg.val
        loc == codegen_span(local_span(current_fn_instance(self), spread_arg))
        inputs == mir.sig_inputs
        tupe == inputs[Len(inputs)]
        tup_typ == codegen_ty(local_ty(self, spread_arg))
        starting_idx == Len(inputs)
        done == marshal_fields([ctx |-> entered, fields |-> <<>>], 0, tupe.len, starting_idx, loc)
        marshalled_tuple_value == with_location(Expr_struct_expr(tup_typ, done.fields), loc)
    IN  IF IsNone(mir.spread_arg) THEN entered
        ELSE IF mir.fn_kind \notin {"FnPtr", "FnDef"}
             THEN panic(entered, "unreachable: spread arg on a non-function type")
        ELSE IF inputs = <<>> THEN panic(entered, "unwrap on None")
        ELSE IF tupe.kind # "Tuple"
             THEN panic(entered, "unreachable: a function's spread argument must be a tuple")
        ELSE declare_variable(done.ctx, codegen_var_name(self, spread_arg),
                              codegen_var_base_name(spread_arg), tup_typ,
                              Some(marshalled_tuple_value), loc)

(***************************************************************************)
(* Attribute handling: kanitool_attr_name, extract_integer_argument,       *)
(* handle_kanitool_proof, handle_kanitool_unwind, handle_kanitool_attributes *)
(***************************************************************************)
get_attrs(instance) ==
    [i \in 1..Len(tcx[instance].attrs) |->
        [kind |-> tcx[instance].attrs[i].kind, segments |-> tcx[instance].attrs[i].segments,
         args |-> tcx[instance].attrs[i].args, span |-> [def |-> instance, at |-> i]]]

RECURSIVE push_str_all(_, _)
push_str_all(new_string, segments) ==
    IF segments = <<>> THEN new_string
    ELSE push_str_all(new_string \o Head(segments), Tail(segments))

kanitool_attr_name(attr) ==
    IF attr.kind = "Normal" /\ attr.segments # <<>> /\ attr.segments[1] = "kanitool"
    THEN Some(push_str_all("", Tail(attr.segments)))
    ELSE NoneV

extract_first_integer_argument(attr) ==
    IF IsNone(attr.args) THEN NoneV
    ELSE LET attr_args == attr.args.val
         IN  IF Len(attr_args) >= 1
             THEN IF attr_args[1].kind # "Literal" THEN NoneV
                  ELSE IF attr_args[1].lit.kind = "Int" THEN Some(attr_args[1].lit.val)
                  ELSE NoneV
             ELSE NoneV

extract_integer_argument(attr) ==
    IF IsNone(attr.args) THEN NoneV
    ELSE LET attr_args == attr.args.val
         IN  IF Len(attr_args) = 1
             THEN IF attr_args[1].kind # "Literal" THEN NoneV
                  ELSE IF attr_args[1].lit.kind = "Int" THEN Some(attr_args[1].lit.val)
                  ELSE NoneV
             ELSE NoneV

handle_kanitool_proof(self) ==
    LET loc == codegen_span(tcx[current_fn_instance(self)].span)
    IN  [pretty_name |-> current_fn_readable_name(self),
         mangled_name |-> current_fn_name(self),
         original_file |-> loc.file.val,
         original_line |-> to_string(loc.line.val),
         unwind_value |-> NoneV]

\* the largest argument the assertion lets through
unwind_in_range(integer_value) == U128Lt(integer_value, U32_MAX)

handle_kanitool_unwind_overwrites(st, attr) ==
    LET entered == [st EXCEPT !.ctx = enter(@, "handle_kanitool_unwind", to_string(attr.span.at))]
        integer_value == extract_integer_argument(attr)
    IN  IF IsSome(integer_value)
        THEN IF ~unwind_in_range(integer_value.val)
             THEN [entered EXCEPT !.ctx = panic(@, "Value above maximum permitted value - u32::MAX")]
             ELSE [entered EXCEPT !.harness.unwind_value = TryIntoU32(integer_value.val),
                                  !.ctx = IF IsSome(st.harness.unwind_value)
                                          THEN span_err(@, attr.span,
                                                   "Use only one Unwind Annotation per Harness")
                                          ELSE @]
        ELSE [entered EXCEPT !.ctx = span_err(@, attr.span,
                                        "Exactly one Unwind Argument as Integer accepted")]

\* st.ctx is self, st.harness the &mut HarnessMetadata
handle_kanitool_unwind(st, attr) ==
    LET entered == [st EXCEPT !.ctx = enter(@, "handle_kanitool_unwind", to_string(attr.span.at))]
        integer_value == extract_integer_argument(attr)
    IN  IF IsNone(st.harness.unwind_value)
        THEN IF IsSome(integer_value)
             THEN IF ~unwind_in_range(integer_value.val)
                  THEN [entered EXCEPT !.ctx = panic(@, "Value above maximum permitted value - u32::MAX")]
                  ELSE IF IsNone(TryIntoU32(integer_value.val))
                       THEN [entered EXCEPT !.ctx = panic(@, "unwrap on Err")]
                       ELSE [entered EXCEPT !.harness.unwind_value = TryIntoU32(integer_value.val)]
             ELSE [entered EXCEPT !.ctx = span_err(@, attr.span,
                                             "Exactly one Unwind Argument as Integer accepted")]
        ELSE [entered EXCEPT !.ctx = span_err(@, attr.span,
                                        "Use only one Unwind Annotation per Harness")]

RECURSIVE apply_attributes(_, _)
apply_attributes(st, attribute_vector) ==
    IF attribute_vector = <<>> \/ st.ctx.aborted THEN st
    ELSE apply_attributes(IF Head(attribute_vector)[1] = "unwind"
                          THEN handle_kanitool_unwind(st, Head(attribute_vector)[2])
                          ELSE st,
                          Tail(attribute_vector))

is_proof(attr) == kanitool_attr_name(attr) = Some("proof")
is_other_kanitool(attr) == IsSome(kanitool_attr_name(attr)) /\ ~is_proof(attr)
other_attributes(attrs) ==
    LET sel == SelectSeq(attrs, is_other_kanitool)
    IN  [i \in 1..Len(sel) |-> <<kanitool_attr_name(sel[i]).val, sel[i]>>]

push_harness_front(st) == [st.ctx EXCEPT !.proof_harnesses = <<st.harness>> \o @]
push_harness_unmodified(st) ==
    [st.ctx EXCEPT !.proof_harnesses = Append(@, [st.harness EXCEPT !.unwind_value = NoneV])]
\* self.proof_harnesses.push(harness_metadata)
push_harness(st) == [st.ctx EXCEPT !.proof_harnesses = Append(@, st.harness)]

report_last_proof(self, proof_attribute_vector) ==
    span_err(self, proof_attribute_vector[Len(proof_attribute_vector)].span,
             "Only one Proof Attribute allowed")
\* more than one proof attribute
report_proofs(self, proof_attribute_vector) ==
    span_err(self, proof_attribute_vector[1].span, "Only one Proof Attribute allowed")

\* attributes without a proof attribute
report_no_proof(self, attribute_vector) ==
    span_err(self, attribute_vector[1][2].span, "Please use '#kani[proof]' above the annotation")

\* the body of handle_kanitool_attributes, given the result of tcx.get_attrs
handle_attrs(self, attrs) ==
    LET proof_attribute_vector == SelectSeq(attrs, is_proof)
        attribute_vector == other_attributes(attrs)
        modified == apply_attributes([ctx |-> self, harness |-> handle_kanitool_proof(self)],
                                     attribute_vector)
    IN  IF Len(proof_attribute_vector) = 1
        THEN IF modified.ctx.aborted THEN modified.ctx ELSE push_harness(modified)
        ELSE IF Len(proof_attribute_vector) > 1
        THEN report_proofs(self, proof_attribute_vector)
        ELSE IF Len(proof_attribute_vector) = 0 /\ Len(attribute_vector) > 0
        THEN report_no_proof(self, attribute_vector)
        ELSE self

handle_kanitool_attributes(self) ==
    handle_attrs(enter(self, "handle_kanitool_attributes", ""),
                 get_attrs(current_fn_instance(self)))

(***************************************************************************)
(* codegen_function and declare_function                                   *)
(***************************************************************************)
RECURSIVE codegen_blocks(_, _)
codegen_blocks(self, bb) ==
    IF bb >= current_fn_mir(self).nblocks \/ self.aborted THEN self
    ELSE codegen_blocks(codegen_block(self, bb), bb + 1)

install_body(self, name) ==
    LET loc == codegen_span(tcx[current_fn_instance(self)].span)
        body == Stmt_block(self.current_fn.val.block, loc)
    IN  [extract_block(self) EXCEPT
            !.symbol_table = update_fn_declaration_with_definition(@, name, body)]

codegen_skipped_after_prelude(self, name) ==
    LET prelude == codegen_function_prelude(self)
        body == codegen_fatal_error(
                    unsupported_msg("The function " \o current_fn_readable_name(self)),
                    Some(tcx[current_fn_instance(self)].span))
    IN  [enter(prelude, "debug", "Skipping function") EXCEPT
            !.symbol_table = update_fn_declaration_with_definition(@, name, body)]

codegen_skipped(self, name) ==
    LET body == codegen_fatal_error(
                    unsupported_msg("The function " \o current_fn_readable_name(self)),
                    Some(tcx[current_fn_instance(self)].span))
    IN  [enter(self, "debug", "Skipping function") EXCEPT
            !.symbol_table = update_fn_declaration_with_definition(@, name, body)]

codegen_double_handles_attributes(self, name) ==
    handle_kanitool_attributes(enter(self, "warn", "Double codegen"))
codegen_double_reinstalls(self, name) ==
    install_body(enter(self, "warn", "Double codegen"), name)
codegen_double(self, name) == enter(self, "warn", "Double codegen")

codegen_full_blocks_first(self, name) ==
    LET prelude == codegen_function_prelude(self)
        blocks == IF prelude.aborted THEN prelude ELSE codegen_blocks(prelude, 0)
        declared == IF blocks.aborted THEN blocks ELSE codegen_declare_variables(blocks)
        defined == IF declared.aborted THEN declared ELSE install_body(declared, name)
    IN  IF defined.aborted THEN defined ELSE handle_kanitool_attributes(defined)

codegen_full(self, name) ==
    LET prelude == codegen_function_prelude(self)
        declared == IF prelude.aborted THEN prelude ELSE codegen_declare_variables(prelude)
        blocks == IF declared.aborted THEN declared ELSE codegen_blocks(declared, 0)
        defined == IF blocks.aborted THEN blocks ELSE install_body(blocks, name)
    IN  IF defined.aborted THEN defined ELSE handle_kanitool_attributes(defined)

codegen_function_skips_missing(self, instance) ==
    LET entered == set_current_fn(enter(self, "codegen_function", instance), instance)
        name == current_fn_name(entered)
        old_sym == lookup(entered.symbol_table, name)
        done == IF is_function_definition(old_sym.val) THEN codegen_double(entered, name)
                ELSE IF should_skip_current_fn(entered) THEN codegen_skipped(entered, name)
                ELSE IF ~is_function(old_sym.val) THEN panic(entered, "assertion failed")
                ELSE codegen_full(entered, name)
    IN  IF IsNone(old_sym) THEN reset_current_fn(entered)
        ELSE IF done.aborted THEN done
        ELSE reset_current_fn(done)

codegen_function_returns_early(self, instance) ==
    LET entered == set_current_fn(enter(self, "codegen_function", instance), instance)
        name == current_fn_name(entered)
        old_sym == lookup(entered.symbol_table, name)
        done == IF should_skip_current_fn(entered) THEN codegen_skipped(entered, name)
                ELSE IF ~is_function(old_sym.val) THEN panic(entered, "assertion failed")
                ELSE codegen_full(entered, name)
    IN  IF IsNone(old_sym) THEN panic(entered, "unwrap on None")
        ELSE IF is_function_definition(old_sym.val) THEN codegen_double(entered, name)
        ELSE IF done.aborted THEN done
        ELSE reset_current_fn(done)

codegen_function(self, instance) ==
    LET entered == set_current_fn(enter(self, "codegen_function", instance), instance)
        name == current_fn_name(entered)
        old_sym == lookup(entered.symbol_table, name)
        done == IF is_function_definition(old_sym.val) THEN codegen_double(entered, name)
                ELSE IF should_skip_current_fn(entered) THEN codegen_skipped(entered, name)
                ELSE IF ~is_function(old_sym.val) THEN panic(entered, "assertion failed")
                ELSE codegen_full(entered, name)
    IN  IF IsNone(old_sym) THEN panic(entered, "unwrap on None")
        ELSE IF done.aborted THEN done
        ELSE reset_current_fn(done)

declare_function_overwrites(self, instance) ==
    LET entered == set_current_fn(enter(self, "declare_function", instance), instance)
        fname == current_fn_name(entered)
        sym == Symbol_function(fname, fn_typ(instance), NoneV,
                               Some(current_fn_readable_name(entered)),
                               codegen_span(tcx[instance].span))
    IN  reset_current_fn([entered EXCEPT !.symbol_table = insert(@, sym)])

declare_function(self, instance) ==
    LET entered == set_current_fn(enter(self, "declare_function", instance), instance)
        fname == current_fn_name(entered)
        sym == Symbol_function(fname, fn_typ(instance), NoneV,
                               Some(current_fn_readable_name(entered)),
                               codegen_span(tcx[instance].span))
    IN  reset_current_fn([entered EXCEPT !.symbol_table = ensure(@, sym)])

(***************************************************************************)
(* The pass: the host calls declare_function and codegen_function on the   *)
(* instances of the crate, one call at a time; a panic ends the pass.      *)
(***************************************************************************)
Init ==
    /\ tcx \in Crates
    /\ symbol_table = <<>>
    /\ proof_harnesses = <<>>
    /\ errors = <<>>
    /\ current_fn = NoneV
    /\ aborted = FALSE
    /\ trace = <<>>

Becomes(self) ==
    /\ symbol_table' = self.symbol_table
    /\ proof_harnesses' = self.proof_harnesses
    /\ errors' = self.errors
    /\ current_fn' = self.current_fn
    /\ aborted' = self.aborted
    /\ trace' = self.trace
    /\ UNCHANGED tcx

DeclareFunction ==
    \E instance \in DOMAIN tcx :
        /\ ~aborted
        /\ Becomes(declare_function(Self, instance))

CodegenFunction ==
    \E instance \in DOMAIN tcx :
        /\ ~aborted
        /\ Becomes(codegen_function(Self, instance))

Next == DeclareFunction \/ CodegenFunction

Spec == Init /\ [][Next]_vars

TypeOK ==
    /\ aborted \in BOOLEAN
    /\ DOMAIN tcx \subseteq Instances
    /\ \A n \in DOMAIN symbol_table : symbol_table[n].name = n

(***************************************************************************)
(* Vocabulary of the properties.                                           *)
(***************************************************************************)
\* this step is a call of codegen_function, resp. declare_function, on instance
CodegenStep(instance) ==
    trace' # <<>> /\ trace'[1] = [ev |-> "codegen_function", arg |-> instance]
DeclareStep(instance) ==
    trace' # <<>> /\ trace'[1] = [ev |-> "declare_function", arg |-> instance]
Entered(tr, routine) == \E k \in 1..Len(tr) : tr[k].ev = routine
Declared(instance) == instance \in DOMAIN symbol_table
Defined(instance) == Declared(instance) /\ IsSome(symbol_table[instance].value)
\* positions of the proof markers and of the other tool attributes of a function
ProofAt(instance) ==
    {k \in 1..Len(tcx[instance].attrs) : tcx[instance].attrs[k].segments = <<"kanitool", "proof">>}
ToolAt(instance) ==
    {k \in 1..Len(tcx[instance].attrs) :
        /\ tcx[instance].attrs[k].segments # <<>>
        /\ tcx[instance].attrs[k].segments[1] = "kanitool"} \ ProofAt(instance)
UnwindAt(instance) ==
    {k \in 1..Len(tcx[instance].attrs) : tcx[instance].attrs[k].segments = <<"kanitool", "unwind">>}
Min(S) == CHOOSE k \in S : \A j \in S : k <= j
\* the registry gained exactly one record, for instance, at its end
OneHarnessAppended(instance) ==
    /\ Len(proof_harnesses') = Len(proof_harnesses) + 1
    /\ SubSeq(proof_harnesses', 1, Len(proof_harnesses)) = proof_harnesses
    /\ proof_harnesses'[Len(proof_harnesses')].mangled_name = instance

(***************************************************************************)
(* C1: attribute handling runs on the stub path and on the full path: a    *)
(* codegen_function call that returns, on a declared function without a    *)
(* body that carries a single proof marker, appends exactly one harness    *)
(* record for it, whether or not the filter flags the function.            *)
(***************************************************************************)
C1_HarnessOnEveryPath ==
    [][\A instance \in DOMAIN tcx :
          (/\ CodegenStep(instance) /\ ~aborted'
           /\ Declared(instance) /\ ~Defined(instance)
           /\ Cardinality(ProofAt(instance)) = 1)
          => OneHarnessAppended(instance)]_vars

(***************************************************************************)
(* C2: codegen_declare_variables pushes no declaration statement for the   *)
(* return slot 0 nor for the argument slots 1..arg_count.                  *)
(***************************************************************************)
C2_NoDeclForReturnOrArgs ==
    \A instance \in DOMAIN tcx :
        (Defined(instance) /\ symbol_table[instance].value.val.kind = "Block")
        => LET stmts == symbol_table[instance].value.val.stmts
           IN  \A k \in 1..Len(stmts) : \A lc \in 0..tcx[instance].mir.arg_count :
                   ~(/\ stmts[k].kind = "Decl"
                     /\ IsNone(stmts[k].value)
                     /\ stmts[k].lhs.name = var_name(instance, lc))

(***************************************************************************)
(* C3: codegen_function on an instance whose symbol already has a body     *)
(* only logs the "Double codegen" warning: the call returns and the body   *)
(* in the symbol table is the body that was there before, call after call. *)
(***************************************************************************)
C3_DoubleCodegenKeepsBody ==
    [][\A instance \in DOMAIN tcx :
          (CodegenStep(instance) /\ Defined(instance))
          => /\ ~aborted'
             /\ Entered(trace', "warn")
             /\ symbol_table'[instance].value = symbol_table[instance].value]_vars

\* a second codegen_function call on a defined function has returned
C3_Witness ==
    /\ ~aborted
    /\ Entered(trace, "warn")
    /\ \E instance \in DOMAIN tcx :
          /\ trace[1] = [ev |-> "codegen_function", arg |-> instance]
          /\ Defined(instance)
          /\ symbol_table[instance].value.val.kind = "Block"

(***************************************************************************)
(* C4: for a declared function without a body whose display name the       *)
(* filter matches, codegen_function enters neither the prelude, nor        *)
(* codegen_declare_variables, nor codegen_block, and the installed body    *)
(* is the one fatal-unsupported statement naming the function.             *)
(***************************************************************************)
C4_FilteredFunctionIsStubbed ==
    [][\A instance \in DOMAIN tcx :
          (/\ CodegenStep(instance)
           /\ Declared(instance) /\ ~Defined(instance)
           /\ tcx[instance].readable_name \in FilteredNames)
          => /\ ~Entered(trace', "codegen_function_prelude")
             /\ ~Entered(trace', "codegen_declare_variables")
             /\ ~Entered(trace', "codegen_block")
             /\ DOMAIN symbol_table' = DOMAIN symbol_table
             /\ IsSome(symbol_table'[instance].value)
             /\ symbol_table'[instance].value.val.kind = "Assert"
             /\ symbol_table'[instance].value.val.cond = FALSE
             /\ contains(symbol_table'[instance].value.val.msg, tcx[instance].readable_name)]_vars

\* a function with a filtered name and a spread argument has been stubbed
C4_Witness ==
    \E instance \in DOMAIN tcx :
        /\ trace # <<>> /\ trace[1] = [ev |-> "codegen_function", arg |-> instance]
        /\ Entered(trace, "debug")
        /\ tcx[instance].readable_name = "a::reusable_box::ReusableBoxFuture::<T>::set"
        /\ IsSome(tcx[instance].mir.spread_arg)
        /\ Defined(instance)

\* reading a decimal numeral
RECURSIVE from_decimal(_)
from_decimal(str) ==
    IF Len(str) = 0 THEN 0
    ELSE 10 * from_decimal(SubSeq(str, 1, Len(str) - 1))
         + (CHOOSE d \in 0..9 : Digit[d + 1] = SubSeq(str, Len(str), Len(str)))
\* an unwind attribute whose argument list is exactly one integer literal
HasOneInt(attr) ==
    /\ attr.segments = <<"kanitool", "unwind">>
    /\ IsSome(attr.args) /\ Len(attr.args.val) = 1
    /\ attr.args.val[1].kind = "Literal" /\ attr.args.val[1].lit.kind = "Int"
\* this step ran attribute handling for instance and returned
AttrStep(instance) ==
    CodegenStep(instance) /\ Entered(trace', "handle_kanitool_attributes") /\ ~aborted'

(***************************************************************************)
(* C5: attribute handling of a function with exactly one proof marker      *)
(* appends exactly one record, once all modifiers have been applied and    *)
(* whether or not they reported errors; the record holds the pretty name,  *)
(* the mangled name, the file and the line in decimal, and its unwind      *)
(* bound is None when the function has no modifier.                        *)
(***************************************************************************)
C5_OneProofOneRecord ==
    [][\A instance \in DOMAIN tcx :
          (AttrStep(instance) /\ Cardinality(ProofAt(instance)) = 1)
          => LET harness == proof_harnesses'[Len(proof_harnesses')]
                 attrs == tcx[instance].attrs
             IN  /\ OneHarnessAppended(instance)
                 /\ harness.pretty_name = tcx[instance].readable_name
                 /\ harness.original_file = tcx[instance].span.file
                 /\ from_decimal(harness.original_line) = tcx[instance].span.line
                 /\ SubSeq(harness.original_line, 1, 1) # "0"
                 /\ (ToolAt(instance) = {} => IsNone(harness.unwind_value))
                 /\ (IsSome(harness.unwind_value)
                        <=> \E k \in UnwindAt(instance) : HasOneInt(attrs[k]))]_vars

\* a harness was appended although a modifier before the accepted one reported an error
C5_Witness ==
    \E instance \in DOMAIN tcx :
        /\ trace # <<>> /\ trace[1] = [ev |-> "codegen_function", arg |-> instance]
        /\ Entered(trace, "handle_kanitool_attributes") /\ ~aborted
        /\ Cardinality(ProofAt(instance)) = 1
        /\ Len(errors) = 1
        /\ Len(proof_harnesses) = 1
        /\ IsSome(proof_harnesses[1].unwind_value)
        /\ proof_harnesses[1].original_line = "7"

Max(S) == CHOOSE k \in S : \A j \in S : k >= j
\* the unwind attributes of a function that carry exactly one integer literal
IntUnwindAt(instance) == {k \in UnwindAt(instance) : HasOneInt(tcx[instance].attrs[k])}
UnwindArg(instance, k) == tcx[instance].attrs[k].args.val[1].lit.val

(***************************************************************************)
(* C7: the first unwind modifier with a single integer literal n is        *)
(* applied to a harness without a bound; it stores unwind_value = Some(n)  *)
(* for every n up to 2^32 - 1 and aborts only for n >= 2^32.               *)
(***************************************************************************)
C7_UnwindAcceptsAllOfU32 ==
    [][\A instance \in DOMAIN tcx :
          (/\ CodegenStep(instance) /\ Entered(trace', "handle_kanitool_attributes")
           /\ Cardinality(ProofAt(instance)) = 1
           /\ IntUnwindAt(instance) # {})
          => LET n == UnwindArg(instance, Min(IntUnwindAt(instance)))
             IN  IF n.hi < Limb
                 THEN /\ ~aborted'
                      /\ OneHarnessAppended(instance)
                      /\ proof_harnesses'[Len(proof_harnesses')].unwind_value = Some(n)
                 ELSE aborted']_vars

(***************************************************************************)
(* C8: a kanitool attribute that is neither proof nor unwind is ignored:   *)
(* attribute handling reports the errors and appends the record it would   *)
(* report and append for the same attribute list without that attribute.   *)
(***************************************************************************)
IsRecognized(attr) ==
    IsNone(kanitool_attr_name(attr)) \/ kanitool_attr_name(attr).val \in {"proof", "unwind"}

C8_UnrecognizedIgnored ==
    [][\A instance \in DOMAIN tcx :
          (CodegenStep(instance) /\ Entered(trace', "handle_kanitool_attributes"))
          => LET without == handle_attrs(set_current_fn(Self, instance),
                                         SelectSeq(get_attrs(instance), IsRecognized))
             IN  /\ errors' = without.errors
                 /\ proof_harnesses' = without.proof_harnesses
                 /\ aborted' = without.aborted]_vars

(***************************************************************************)
(* C9: a function with one proof marker and the unwind modifier twice,     *)
(* with integer arguments a then b, gets a record with unwind_value =      *)
(* Some(a), and exactly one error is reported, at the second unwind.       *)
(***************************************************************************)
C9_FirstUnwindKept ==
    [][\A instance \in DOMAIN tcx :
          (/\ AttrStep(instance)
           /\ Cardinality(ProofAt(instance)) = 1
           /\ Cardinality(UnwindAt(instance)) = 2
           /\ IntUnwindAt(instance) = UnwindAt(instance))
          => /\ OneHarnessAppended(instance)
             /\ proof_harnesses'[Len(proof_harnesses')].unwind_value
                    = Some(UnwindArg(instance, Min(UnwindAt(instance))))
             /\ Len(errors') = Len(errors) + 1
             /\ SubSeq(errors', 1, Len(errors)) = errors
             /\ errors'[Len(errors')].span
                    = [def |-> instance, at |-> Max(UnwindAt(instance))]]_vars

\* unwind(10) then unwind(2^32): the record keeps 10, the error is at the second
C9_Witness ==
    \E instance \in DOMAIN tcx :
        /\ trace # <<>> /\ trace[1] = [ev |-> "codegen_function", arg |-> instance]
        /\ ~aborted
        /\ Cardinality(ProofAt(instance)) = 1
        /\ Cardinality(IntUnwindAt(instance)) = 2
        /\ UnwindArg(instance, Max(UnwindAt(instance))) = U128(Limb, 0)
        /\ Len(proof_harnesses) = 1
        /\ proof_harnesses[1].unwind_value = Some(U128(0, 10))
        /\ Len(errors) = 1 /\ errors[1].span.at = Max(UnwindAt(instance))

(***************************************************************************)
(* C10: the current-function context is unset after every call of          *)
(* codegen_function that returns, on its three paths, and after every      *)
(* call of declare_function; so each call starts without a current         *)
(* function and without statements left over from another instance.        *)
(***************************************************************************)
C10_CurrentFnReleased == ~aborted => IsNone(current_fn)

\* a call on the double-codegen path has returned
C10_Witness ==
    /\ ~aborted /\ IsNone(current_fn)
    /\ trace # <<>> /\ trace[1].ev = "codegen_function"
    /\ Entered(trace, "warn")
    /\ Cardinality(DOMAIN tcx) = 2
    /\ \A instance \in DOMAIN tcx : Defined(instance)

(***************************************************************************)
(* Vocabulary of the untupling properties.                                 *)
(***************************************************************************)
\* the body installed by the full path
HasBlock(instance) == Defined(instance) /\ symbol_table[instance].value.val.kind = "Block"
Stmts(instance) == symbol_table[instance].value.val.stmts
\* positions of the declarations of a name in the body
DeclsOf(instance, name) ==
    {p \in 1..Len(Stmts(instance)) :
        Stmts(instance)[p].kind = "Decl" /\ Stmts(instance)[p].lhs.name = name}
SpreadName(instance, lc) == instance \o "::1::spread" \o to_string(lc)
HasSpread(instance) == IsSome(tcx[instance].mir.spread_arg)
SpreadLocal(instance) == var_name(instance, tcx[instance].mir.spread_arg.val)
\* reading a field of a struct value by the field's name
Member(expr, field) ==
    expr.values[CHOOSE j \in 1..Len(expr.typ.components) : expr.typ.components[j] = field]

(***************************************************************************)
(* C11: untupling round trip.  For a function with a spread argument whose *)
(* signature before untupling has k inputs, the last a tuple of m          *)
(* components, the initializer of the spread local gives field "i" the     *)
(* spread parameter of local index i + k, for every i in 0..m-1 and every  *)
(* physical order of the fields.                                           *)
(***************************************************************************)
C11_UntuplingRoundTrip ==
    \A instance \in DOMAIN tcx :
        (HasBlock(instance) /\ HasSpread(instance))
        => LET inputs == tcx[instance].mir.sig_inputs
               k == Len(inputs)
               m == inputs[k].len
               decl == Stmts(instance)[1]
           IN  /\ decl.kind = "Decl" /\ decl.lhs.name = SpreadLocal(instance)
               /\ IsSome(decl.value)
               /\ Len(decl.value.val.values) = m
               /\ \A i \in 0..(m - 1) :
                     /\ Member(decl.value.val, to_string(i))
                            = [kind |-> "Symbol", name |-> SpreadName(instance, i + k)]
                     /\ SpreadName(instance, i + k) \in DOMAIN symbol_table

\* a translated function whose tuple fields are kept in reversed physical order
C11_Witness ==
    \E instance \in DOMAIN tcx :
        /\ HasBlock(instance) /\ HasSpread(instance)
        /\ tcx[instance].mir.sig_inputs[Len(tcx[instance].mir.sig_inputs)].layout = <<1, 0>>
        /\ Len(tcx[instance].mir.sig_inputs) = 2
        /\ Stmts(instance)[1].value.val.values[1].name = SpreadName(instance, 3)

(***************************************************************************)
(* C12: declaration, then definition.  declare_function on an instance     *)
(* that is not in the symbol table leaves its symbol there without a body; *)
(* the first codegen_function call on it that returns gives it a body; and *)
(* a symbol that has a body keeps having one under every further call of   *)
(* declare_function and codegen_function.                                  *)
(***************************************************************************)
C12_DeclareThenDefine ==
    [][\A instance \in DOMAIN tcx :
          /\ (DeclareStep(instance) /\ ~Declared(instance))
             => /\ instance \in DOMAIN symbol_table'
                /\ symbol_table'[instance].kind = "function"
                /\ IsNone(symbol_table'[instance].value)
          /\ (CodegenStep(instance) /\ Declared(instance) /\ ~Defined(instance) /\ ~aborted')
             => /\ instance \in DOMAIN symbol_table'
                /\ IsSome(symbol_table'[instance].value)
          /\ Defined(instance)
             => /\ instance \in DOMAIN symbol_table'
                /\ IsSome(symbol_table'[instance].value)]_vars

\* declare_function was called again on a function that already has its body
C12_Witness ==
    \E instance \in DOMAIN tcx :
        /\ trace # <<>> /\ trace[1] = [ev |-> "declare_function", arg |-> instance]
        /\ HasBlock(instance)

(***************************************************************************)
(* C13: every spread-parameter symbol the untupling prelude inserts into   *)
(* the symbol table is hidden.                                             *)
(***************************************************************************)
C13_SpreadParamsHidden ==
    \A instance \in DOMAIN tcx :
        (HasBlock(instance) /\ HasSpread(instance))
        => \A lc \in 0..(MaxArgs + MaxTuple + 2) :
              SpreadName(instance, lc) \in DOMAIN symbol_table
              => symbol_table[SpreadName(instance, lc)].is_hidden

(***************************************************************************)
(* C14: the harness registry is append-only over the whole pass: every     *)
(* step leaves it as it is or appends one record at its end, the record    *)
(* of the function that this codegen_function call translated; so every    *)
(* earlier registry is a prefix of every later one and the records stand   *)
(* in the order in which their functions were translated.                  *)
(***************************************************************************)
C14_RegistryAppendOnly ==
    [][\/ proof_harnesses' = proof_harnesses
       \/ \E instance \in DOMAIN tcx :
             /\ CodegenStep(instance)
             /\ Entered(trace', "codegen_block")
             /\ OneHarnessAppended(instance)]_vars

\* two harnesses recorded, the later translated function last
C14_Witness ==
    /\ Len(proof_harnesses) = 2
    /\ proof_harnesses[1].mangled_name # proof_harnesses[2].mangled_name
    /\ trace # <<>>
    /\ trace[1] = [ev |-> "codegen_function", arg |-> proof_harnesses[2].mangled_name]
    /\ Entered(trace, "handle_kanitool_attributes")

(***************************************************************************)
(* C15: codegen_function on an instance without a symbol in the symbol     *)
(* table is fatal: the pass aborts, and the call inserts no symbol,        *)
(* installs no body and appends no harness record.                         *)
(***************************************************************************)
C15_UndeclaredIsFatal ==
    [][\A instance \in DOMAIN tcx :
          (CodegenStep(instance) /\ ~Declared(instance))
          => /\ aborted'
             /\ symbol_table' = symbol_table
             /\ proof_harnesses' = proof_harnesses
             /\ errors' = errors]_vars

\* the pass has aborted on an undeclared instance while another one was declared
C15_Witness ==
    \E instance \in DOMAIN tcx :
        /\ aborted
        /\ trace = <<[ev |-> "codegen_function", arg |-> instance],
                     [ev |-> "panic", arg |-> "unwrap on None"]>>
        /\ ~Declared(instance)
        /\ symbol_table # <<>>

(***************************************************************************)
(* C16: the body installed by the full path is one block whose statements  *)
(* are, in this order: the declaration of the spread local with its        *)
(* initializer (only with a spread argument), the declarations of local    *)
(* slots in ascending slot order, and the statements of the basic blocks   *)
(* in block order.                                                         *)
(***************************************************************************)
SlotOf(instance, stmt) ==
    CHOOSE lc \in 0..(tcx[instance].mir.nlocals - 1) : var_name(instance, lc) = stmt.lhs.name

C16_BodyOrder ==
    \A instance \in DOMAIN tcx :
        HasBlock(instance)
        => LET stmts == Stmts(instance)
               mir == tcx[instance].mir
               first == IF HasSpread(instance) THEN 1 ELSE 0
               last == Len(stmts) - mir.nblocks
           IN  /\ first <= last
               /\ \A p \in 1..first :
                     /\ stmts[p].kind = "Decl" /\ IsSome(stmts[p].value)
                     /\ stmts[p].lhs.name = SpreadLocal(instance)
               /\ \A p \in (first + 1)..last :
                     /\ stmts[p].kind = "Decl" /\ IsNone(stmts[p].value)
                     /\ \E lc \in 0..(mir.nlocals - 1) : var_name(instance, lc) = stmts[p].lhs.name
               /\ \A p, q \in (first + 1)..last :
                     p < q => SlotOf(instance, stmts[p]) < SlotOf(instance, stmts[q])
               /\ \A p \in (last + 1)..Len(stmts) :
                     stmts[p] = [kind |-> "BasicBlock", bb |-> p - last - 1]

\* a body with the spread declaration, two slot declarations and a basic block
C16_Witness ==
    \E instance \in DOMAIN tcx :
        /\ HasBlock(instance) /\ HasSpread(instance)
        /\ Len(Stmts(instance)) = 4
        /\ IsSome(Stmts(instance)[1].value)
        /\ Stmts(instance)[2].kind = "Decl" /\ Stmts(instance)[3].kind = "Decl"
        /\ Stmts(instance)[4].kind = "BasicBlock"

(***************************************************************************)
(* C17: in the body of a function with a spread argument the spread local  *)
(* is declared exactly once, with the aggregate initializer, and its       *)
(* symbol is the one the prelude inserted: codegen_declare_variables       *)
(* skips the slot and neither inserts the symbol again nor declares it     *)
(* again.  For a function without a spread argument the prelude inserts    *)
(* no symbol and pushes no statement: the body has no declaration with an  *)
(* initializer, only the declarations of codegen_declare_variables and     *)
(* the basic blocks, and the table has no spread parameter of it.          *)
(***************************************************************************)
C17_SpreadLocalDeclaredOnce ==
    \A instance \in DOMAIN tcx :
        HasBlock(instance)
        => LET mir == tcx[instance].mir
               stmts == Stmts(instance)
           IN  IF HasSpread(instance)
               THEN /\ Cardinality(DeclsOf(instance, SpreadLocal(instance))) = 1
                    /\ \A p \in DeclsOf(instance, SpreadLocal(instance)) : IsSome(stmts[p].value)
                    /\ SpreadLocal(instance) \in DOMAIN symbol_table
                    /\ symbol_table[SpreadLocal(instance)]
                           = Symbol_variable(SpreadLocal(instance),
                                             codegen_var_base_name(mir.spread_arg.val),
                                             codegen_ty(mir.sig_inputs[mir.spread_arg.val]),
                                             codegen_span(local_span(instance, mir.spread_arg.val)))
               ELSE /\ \A p \in 1..Len(stmts) : stmts[p].kind = "Decl" => IsNone(stmts[p].value)
                    /\ Len(stmts) = Cardinality({lc \in 0..(mir.nlocals - 1) :
                                                    needs_decl(lc, mir.arg_count)}) + mir.nblocks
                    /\ \A lc \in 0..(MaxArgs + MaxTuple + 2) :
                          SpreadName(instance, lc) \notin DOMAIN symbol_table

\* a translated function whose spread slot is not a user variable
C17_Witness ==
    \E instance \in DOMAIN tcx :
        /\ HasBlock(instance) /\ HasSpread(instance)
        /\ tcx[instance].mir.spread_arg.val \notin tcx[instance].mir.user
        /\ Cardinality(DeclsOf(instance, SpreadLocal(instance))) = 1
        /\ ~symbol_table[SpreadLocal(instance)].is_hidden
        /\ var_name(instance, 0) \in DOMAIN symbol_table

(***************************************************************************)
(* C18: attribute handling that returns, on a function with exactly one    *)
(* proof marker.  Every unwind modifier whose argument list is not exactly *)
(* one integer literal and that has no well-formed unwind modifier before  *)
(* it (the harness has no bound yet) reports exactly one error, at its     *)
(* own span; the harness record is still appended; its bound is unset     *)
(* when no unwind modifier is well-formed, and otherwise the bound is set  *)
(* by the first well-formed one, also when that one comes later.           *)
(***************************************************************************)
MalformedFirstAt(instance) ==
    {k \in UnwindAt(instance) \ IntUnwindAt(instance) :
        \A j \in IntUnwindAt(instance) : k < j}

C18_MalformedUnwind ==
    [][\A instance \in DOMAIN tcx :
          (AttrStep(instance) /\ Cardinality(ProofAt(instance)) = 1)
          => LET harness == proof_harnesses'[Len(proof_harnesses')]
             IN  \A k \in MalformedFirstAt(instance) :
                    /\ Len(errors') >= Len(errors)
                    /\ SubSeq(errors', 1, Len(errors)) = errors
                    /\ Cardinality({e \in (Len(errors) + 1)..Len(errors') :
                                       errors'[e].span = [def |-> instance, at |-> k]}) = 1
                    /\ \A e \in (Len(errors) + 1)..Len(errors') :
                          errors'[e].span = [def |-> instance, at |-> k]
                          => errors'[e].msg = "Exactly one Unwind Argument as Integer accepted"
                    /\ OneHarnessAppended(instance)
                    /\ harness.unwind_value
                          = IF IntUnwindAt(instance) = {} THEN NoneV
                            ELSE Some(UnwindArg(instance, Min(IntUnwindAt(instance))))]_vars

\* proof, unwind(1, 2), unwind(10): one error at the second attribute, bound 10
C18_Witness ==
    \E instance \in DOMAIN tcx :
        /\ trace # <<>> /\ trace[1] = [ev |-> "codegen_function", arg |-> instance]
        /\ ~aborted
        /\ ProofAt(instance) = {1}
        /\ MalformedFirstAt(instance) = {2}
        /\ IntUnwindAt(instance) = {3}
        /\ IsSome(tcx[instance].attrs[2].args) /\ Len(tcx[instance].attrs[2].args.val) = 2
        /\ Len(errors) = 1 /\ errors[1].span.at = 2
        /\ Len(proof_harnesses) = 1
        /\ proof_harnesses[1].unwind_value = Some(U128(0, 10))

(***************************************************************************)
(* C19: in every reachable state, whatever declare_function and            *)
(* codegen_function calls led to it, the registry holds at most one        *)
(* record per mangled name.                                                *)
(***************************************************************************)
C19_OneRecordPerName ==
    \A i, j \in 1..Len(proof_harnesses) :
        proof_harnesses[i].mangled_name = proof_harnesses[j].mangled_name => i = j

\* a harness translated a second time: the registry still has its one record
C19_Witness ==
    \E instance \in DOMAIN tcx :
        /\ trace = <<[ev |-> "codegen_function", arg |-> instance],
                     [ev |-> "warn", arg |-> "Double codegen"]>>
        /\ HasBlock(instance)
        /\ ProofAt(instance) # {}
        /\ Cardinality({i \in 1..Len(proof_harnesses) :
                           proof_harnesses[i].mangled_name = instance}) = 1

(***************************************************************************)
(* C20: frame of the stub path and of the double path.  A                  *)
(* codegen_function call on a declared function without a body whose name  *)
(* the filter flags adds no symbol and changes no symbol but the           *)
(* function's own; a call on a function that has a body leaves the whole   *)
(* symbol table as it is.  Both also for functions with a spread argument. *)
(***************************************************************************)
C20_StubAndDoubleFrame ==
    [][\A instance \in DOMAIN tcx :
          CodegenStep(instance)
          => /\ (Declared(instance) /\ ~Defined(instance)
                 /\ tcx[instance].readable_name \in FilteredNames)
                => /\ DOMAIN symbol_table' = DOMAIN symbol_table
                   /\ \A n \in DOMAIN symbol_table \ {instance} :
                         symbol_table'[n] = symbol_table[n]
             /\ Defined(instance) => symbol_table' = symbol_table]_vars

\* the stub of a function with a spread argument has been translated again
C20_Witness ==
    \E instance \in DOMAIN tcx :
        /\ trace = <<[ev |-> "codegen_function", arg |-> instance],
                     [ev |-> "warn", arg |-> "Double codegen"]>>
        /\ HasSpread(instance)
        /\ Defined(instance) /\ ~HasBlock(instance)
        /\ \A lc \in 0..(MaxArgs + MaxTuple + 2) :
              /\ SpreadName(instance, lc) \notin DOMAIN symbol_table
              /\ var_name(instance, lc) \notin DOMAIN symbol_table
====
